---- MODULE Spec2Model ----
(***************************************************************************)
(* QuickDrop: a Flask server that shares one folder over HTTP.             *)
(* src/app.py (GUI variant) and                                            *)
(* src/file_transfer_mark-1_for_android_to_pc/app.py (Termux variant)      *)
(* have the same request handlers (get_info, list_files, download_file)    *)
(* and differ in the startup routine only.                                 *)
(*                                                                         *)
(* A path string is modelled as a record [abs, segs]: whether it starts    *)
(* with "/" and its "/"-separated segments.  A segment is a file name; a   *)
(* file name may contain a backslash (legal on POSIX).  The file system is *)
(* a function from canonical absolute paths (nodes) to the kind of object  *)
(* stored there; the kernel resolves a path by walking it segment by       *)
(* segment (".." is the parent, no lexical shortcut).                      *)
(***************************************************************************)
EXTENDS Naturals, Sequences, FiniteSets

\* --------------------------------------------------------------- bounds
\* longest client-supplied virtual path, in segments
MaxDepth == 2
\* number of concurrent changes other processes make to the file system
MaxFsChanges == 2

\* --------------------------------------------------------- path strings
EmptyStr == [abs |-> FALSE, segs |-> <<>>]
Rel(s) == [abs |-> FALSE, segs |-> s]
Abs(s) == [abs |-> TRUE, segs |-> s]

\* the folder the operator shares, and a path that names nothing
SharePath == Abs(<<"share">>)
MissingPath == Abs(<<"missing">>)

\* segments a client may put in a URL: ".." , names inside the share, and
\* names that exist only outside it
Segments == {"..", "A", "a.txt", "b\\c", "etc"}

RECURSIVE SeqsUpTo(_, _)
SeqsUpTo(S, n) ==
    IF n = 0 THEN {<<>>}
    ELSE LET shorter == SeqsUpTo(S, n - 1)
         IN  shorter \cup {Append(s, x) : s \in shorter, x \in S}

VirtualPaths == SeqsUpTo(Segments, MaxDepth)

\* ------------------------------------------------------ the file system
\* /            share, etc, a.txt
\* /etc         (empty directory outside the share)
\* /a.txt       a file outside the share
\* /share       A, a.txt, b\c
\* /share/A     a.txt, ln (a dangling symbolic link)
Nodes ==
    { <<>>, <<"etc">>, <<"a.txt">>, <<"share">>,
      <<"share", "A">>, <<"share", "a.txt">>, <<"share", "b\\c">>,
      <<"share", "A", "a.txt">>, <<"share", "A", "ln">> }

InitialFs ==
    [n \in Nodes |->
        IF n \in {<<>>, <<"etc">>, <<"share">>, <<"share", "A">>} THEN "dir"
        ELSE IF n = <<"share", "A", "ln">> THEN "link"
        ELSE "file"]

\* what other processes may touch while the server runs
Mutable == {n \in Nodes : Len(n) >= 2}

FileBytes ==
    [n \in Nodes |->
        CASE n = <<"a.txt">> -> 11
          [] n = <<"share", "a.txt">> -> 12
          [] n = <<"share", "b\\c">> -> 13
          [] n = <<"share", "A", "a.txt">> -> 14
          [] OTHER -> 10]

\* what stat(2) reports for the object at node n
StSize(f, n) ==
    IF f[n] = "file" THEN (IF n = <<"share", "a.txt">> THEN 5 ELSE 7) ELSE 4096
StMtime(f, n) == 100 + Len(n)

IsPrefix(p, q) == Len(p) <= Len(q) /\ SubSeq(q, 1, Len(p)) = p
Parent(n) == IF n = <<>> THEN <<>> ELSE SubSeq(n, 1, Len(n) - 1)
Last(s) == s[Len(s)]
Searchable(k) == k \in {"dir", "locked"}

Cwd == <<>>
NoNode == [ok |-> FALSE, node |-> <<>>]
Found(n) == [ok |-> TRUE, node |-> n]

\* the kernel's path walk from directory cur
RECURSIVE Walk(_, _, _)
Walk(f, cur, segs) ==
    IF segs = <<>> THEN Found(cur)
    ELSE IF ~Searchable(f[cur]) THEN NoNode
    ELSE IF Head(segs) = ".." THEN Walk(f, Parent(cur), Tail(segs))
    ELSE LET child == Append(cur, Head(segs))
         IN  IF child \in Nodes /\ f[child] # "none"
             THEN Walk(f, child, Tail(segs))
             ELSE NoNode

Resolve(f, p) == Walk(f, IF p.abs THEN <<>> ELSE Cwd, p.segs)

\* stat(2) follows links: a dangling link has no kind
KindAt(f, p) ==
    LET r == Resolve(f, p)
    IN  IF ~r.ok \/ f[r.node] = "link" THEN "none" ELSE f[r.node]

OsPathExists(f, p) == KindAt(f, p) # "none"
OsPathIsdir(f, p) == Searchable(KindAt(f, p))
OsPathIsfile(f, p) == KindAt(f, p) = "file"

\* os.path.join(a, b): an absolute b discards a
OsPathJoin(a, b) ==
    IF b.abs THEN b ELSE [abs |-> a.abs, segs |-> a.segs \o b.segs]

\* os.path.abspath: lexical normalisation of ".." against the cwd
RECURSIVE Collapse(_, _)
Collapse(done, segs) ==
    IF segs = <<>> THEN done
    ELSE IF Head(segs) = ".." THEN Collapse(Parent(done), Tail(segs))
    ELSE Collapse(Append(done, Head(segs)), Tail(segs))

OsPathAbspath(p) == Abs(Collapse(IF p.abs THEN <<>> ELSE Cwd, p.segs))
OsPathBasename(p) == IF p.segs = <<>> THEN "" ELSE Last(p.segs)

\* str.replace("\\", "/") on one segment: the pieces between backslashes
SplitBackslash(name) == IF name = "b\\c" THEN <<"b", "c">> ELSE <<name>>

RECURSIVE ReplaceBackslash(_)
ReplaceBackslash(segs) ==
    IF segs = <<>> THEN <<>>
    ELSE SplitBackslash(Head(segs)) \o ReplaceBackslash(Tail(segs))

\* the names os.listdir may return, in every order the file system may use
Children(f, n) == {c \in Nodes : c # <<>> /\ Parent(c) = n /\ f[c] # "none"}
ChildNames(f, n) == {Last(c) : c \in Children(f, n)}
Orders(S) ==
    {s \in [1..Cardinality(S) -> S] : \A i, j \in 1..Cardinality(S) : i # j => s[i] # s[j]}

\* ---------------------------------------------------------------- state
VARIABLES
    SHARED_DIRECTORY,   \* module global, src/app.py:35
    ROOT_FOLDER_NAME,   \* module global, src/app.py:36
    PORT,               \* module global, src/app.py:37
    main,               \* the main thread: "start", "serving" (in app.run), "exited"
    fs,                 \* the host file system
    fsChanges,          \* how many times other processes changed it
    pc,                 \* where the request being handled stands
    route,              \* the view function handling it
    subpath,            \* list_files' argument
    filepath,           \* download_file's argument
    listing,            \* the list os.listdir returned (the for loop's iterable)
    idx,                \* the for loop's position in it
    is_dir,             \* list_files' local
    items,              \* list_files' local
    response,           \* the response of the request being handled
    infoResponse,       \* the last response of /api/info
    accessed,           \* the node the handler enumerated or opened
    failed,             \* the names whose stat raised OSError in this request
    origin              \* the listed file a download request was taken from

globals == <<SHARED_DIRECTORY, ROOT_FOLDER_NAME, PORT>>
locals == <<route, subpath, filepath, listing, idx, is_dir, items, accessed, failed, origin>>
vars == <<SHARED_DIRECTORY, ROOT_FOLDER_NAME, PORT, main, fs, fsChanges, pc, route,
          subpath, filepath, listing, idx, is_dir, items, response, infoResponse,
          accessed, failed, origin>>

DefaultPort == 5000
NoResponse == [status |-> 0]
NotFound == [status |-> 404]
\* an exception no handler catches: Flask answers 500 Internal Server Error
Uncaught == [status |-> 500]
NoOrigin == [ok |-> FALSE, node |-> <<>>, epoch |-> 0]

Init ==
    /\ SHARED_DIRECTORY = EmptyStr
    /\ ROOT_FOLDER_NAME = ""
    /\ PORT = DefaultPort
    /\ main = "start"
    /\ fs = InitialFs
    /\ fsChanges = 0
    /\ pc = "idle"
    /\ route = "none"
    /\ subpath = <<>>
    /\ filepath = <<>>
    /\ listing = <<>>
    /\ idx = 0
    /\ is_dir = FALSE
    /\ items = <<>>
    /\ response = NoResponse
    /\ infoResponse = NoResponse
    /\ accessed = NoNode
    /\ failed = {}
    /\ origin = NoOrigin

\* -------------------------------------------------------------- startup
\* `if selected_path:` a non-empty string is truthy
Truthy(p) == p # EmptyStr

\* the server is started whether or not a folder was chosen
select_folder_always_serves(selected_path) ==
    /\ main = "start"
    /\ IF Truthy(selected_path)
       THEN /\ SHARED_DIRECTORY' = OsPathAbspath(selected_path)
            /\ ROOT_FOLDER_NAME' = OsPathBasename(OsPathAbspath(selected_path))
       ELSE UNCHANGED <<SHARED_DIRECTORY, ROOT_FOLDER_NAME>>
    /\ main' = "serving"
    /\ UNCHANGED <<PORT, fs, fsChanges, pc, locals, response, infoResponse>>

\* select_folder_and_start_server: filedialog.askdirectory returns the chosen
\* folder, or "" when the dialog is cancelled
select_folder_and_start_server(selected_path) ==
    /\ main = "start"
    /\ IF Truthy(selected_path)
       THEN /\ SHARED_DIRECTORY' = OsPathAbspath(selected_path)
            /\ ROOT_FOLDER_NAME' = OsPathBasename(OsPathAbspath(selected_path))
            /\ main' = "serving"
       ELSE /\ main' = "exited"
            /\ UNCHANGED <<SHARED_DIRECTORY, ROOT_FOLDER_NAME>>
    /\ UNCHANGED <<PORT, fs, fsChanges, pc, locals, response, infoResponse>>

\* start_server(directory) of the Termux variant (expanduser leaves a path
\* without "~" as it is)
start_server(directory) ==
    /\ main = "start"
    /\ IF ~OsPathIsdir(fs, directory)
       THEN /\ main' = "exited"
            /\ UNCHANGED <<SHARED_DIRECTORY, ROOT_FOLDER_NAME>>
       ELSE /\ SHARED_DIRECTORY' = OsPathAbspath(directory)
            /\ ROOT_FOLDER_NAME' = OsPathBasename(OsPathAbspath(directory))
            /\ main' = "serving"
    /\ UNCHANGED <<PORT, fs, fsChanges, pc, locals, response, infoResponse>>

\* ------------------------------------------------------------- get_info
get_info ==
    /\ main = "serving"
    /\ infoResponse' = [status |-> 200, root_folder_name |-> ROOT_FOLDER_NAME]
    /\ UNCHANGED <<globals, main, fs, fsChanges, pc, locals, response>>

\* ----------------------------------------------------------- list_files
\* the route /api/files/<path:subpath> (also /api/files/ with subpath '')
list_files_request(v) ==
    /\ main = "serving"
    /\ pc = "idle"
    /\ pc' = "list_check"
    /\ route' = "list_files"
    /\ subpath' = v
    /\ response' = NoResponse
    /\ origin' = [ok |-> FALSE, node |-> <<>>, epoch |-> fsChanges]
    /\ UNCHANGED <<globals, main, fs, fsChanges, filepath, listing, idx, is_dir, items,
                   infoResponse, accessed, failed>>

directory == OsPathJoin(SHARED_DIRECTORY, Rel(subpath))

\* the isdir test is forgotten
ListFilesRejectsMissingOnly(f, d) == ~OsPathExists(f, d)

\* `if not os.path.exists(directory) or not os.path.isdir(directory)`
ListFilesRejects(f, d) == ~OsPathExists(f, d) \/ ~OsPathIsdir(f, d)

list_files_check ==
    /\ pc = "list_check"
    /\ IF ListFilesRejects(fs, directory)
       THEN pc' = "done" /\ response' = NotFound
       ELSE pc' = "list_listdir" /\ UNCHANGED response
    /\ UNCHANGED <<globals, main, fs, fsChanges, locals, infoResponse>>

\* the listing starts with an entry for the parent directory
InitialItemsWithParent(sub) ==
    IF sub = <<>> THEN <<>>
    ELSE << [name |-> "..", path |-> Parent(sub), is_dir |-> TRUE, size |-> 0,
             last_modified |-> 0] >>

\* `items = []`
InitialItems(sub) == <<>>

\* `for item_name in os.listdir(directory)`: os.listdir raises OSError when
\* the directory is gone, is no directory any more or may not be read; the
\* call is outside the try block
list_files_listdir ==
    /\ pc = "list_listdir"
    /\ IF KindAt(fs, directory) = "dir"
       THEN /\ \E order \in Orders(ChildNames(fs, Resolve(fs, directory).node)) :
                  /\ listing' = order
                  /\ pc' = IF order = <<>> THEN "list_return" ELSE "list_isdir"
            /\ idx' = 1
            /\ items' = InitialItems(subpath)
            /\ accessed' = Resolve(fs, directory)
            /\ UNCHANGED response
       ELSE /\ pc' = "done"
            /\ response' = Uncaught
            /\ UNCHANGED <<listing, idx, items, accessed>>
    /\ UNCHANGED <<globals, main, fs, fsChanges, route, subpath, filepath, is_dir,
                   infoResponse, failed, origin>>

item_name == listing[idx]
item_path == OsPathJoin(directory, Rel(<<item_name>>))

\* `is_dir = os.path.isdir(item_path)` (os.path.isdir never raises)
list_files_isdir ==
    /\ pc = "list_isdir"
    /\ is_dir' = OsPathIsdir(fs, item_path)
    /\ pc' = "list_stat"
    /\ UNCHANGED <<globals, main, fs, fsChanges, route, subpath, filepath, listing, idx,
                   items, response, infoResponse, accessed, failed, origin>>

\* 'path': os.path.join(subpath, item_name).replace("\\", "/")
EntryPath(sub, name) == ReplaceBackslash(OsPathJoin(Rel(sub), Rel(<<name>>)).segs)

\* os.path.getsize / os.path.getmtime raise OSError when stat fails
StatRaises(f, p) == ~OsPathExists(f, p)

Entry(f, sub, name, p, isd) ==
    [name |-> name,
     path |-> EntryPath(sub, name),
     is_dir |-> isd,
     size |-> IF ~isd THEN StSize(f, Resolve(f, p).node) ELSE 0,
     last_modified |-> StMtime(f, Resolve(f, p).node)]

\* the new entry is put in front
NextItemsPrepend(its, entry, raised) == IF raised THEN its ELSE <<entry>> \o its
\* the entry is appended although its stat raised
NextItemsKeepFailed(its, entry, raised) == Append(its, entry)

\* the try block: append the entry, or `except OSError: continue`
NextItems(its, entry, raised) == IF raised THEN its ELSE Append(its, entry)

list_files_stat ==
    /\ pc = "list_stat"
    /\ items' = NextItems(items, Entry(fs, subpath, item_name, item_path, is_dir),
                          StatRaises(fs, item_path))
    /\ failed' = IF StatRaises(fs, item_path) THEN failed \cup {item_name} ELSE failed
    /\ idx' = idx + 1
    /\ pc' = IF idx = Len(listing) THEN "list_return" ELSE "list_isdir"
    /\ UNCHANGED <<globals, main, fs, fsChanges, route, subpath, filepath, listing,
                   is_dir, response, infoResponse, accessed, origin>>

\* `return jsonify(items)`
list_files_return ==
    /\ pc = "list_return"
    /\ response' = [status |-> 200, kind |-> "listing", items |-> items]
    /\ pc' = "done"
    /\ UNCHANGED <<globals, main, fs, fsChanges, locals, infoResponse>>

\* -------------------------------------------------------- download_file
\* the route /download/<path:filepath>: filepath is not empty
download_file_request(v) ==
    /\ main = "serving"
    /\ pc = "idle"
    /\ v # <<>>
    /\ pc' = "download_check"
    /\ route' = "download_file"
    /\ filepath' = v
    /\ response' = NoResponse
    /\ UNCHANGED <<globals, main, fs, fsChanges, subpath, listing, idx, is_dir, items,
                   infoResponse, accessed, failed, origin>>

\* the client follows entry i of the listing it was sent: a download request
\* on that entry's 'path'
download_listed_file(i) ==
    /\ pc = "done"
    /\ route = "list_files"
    /\ response.status = 200
    /\ i \in 1..Len(response.items)
    /\ ~response.items[i].is_dir
    /\ pc' = "download_check"
    /\ route' = "download_file"
    /\ filepath' = response.items[i].path
    /\ origin' = [ok |-> TRUE,
                  node |-> Append(accessed.node, response.items[i].name),
                  epoch |-> origin.epoch]
    /\ response' = NoResponse
    /\ subpath' = <<>>
    /\ listing' = <<>>
    /\ idx' = 0
    /\ is_dir' = FALSE
    /\ items' = <<>>
    /\ accessed' = NoNode
    /\ failed' = {}
    /\ UNCHANGED <<globals, main, fs, fsChanges, infoResponse>>

abs_path == OsPathJoin(SHARED_DIRECTORY, Rel(filepath))

\* `if not os.path.exists(abs_path) or os.path.isdir(abs_path)`
DownloadRejects(f, p) == ~OsPathExists(f, p) \/ OsPathIsdir(f, p)

download_file_check ==
    /\ pc = "download_check"
    /\ IF DownloadRejects(fs, abs_path)
       THEN pc' = "done" /\ response' = NotFound
       ELSE pc' = "download_send" /\ UNCHANGED response
    /\ UNCHANGED <<globals, main, fs, fsChanges, locals, infoResponse>>

\* `dir_path, filename = os.path.split(abs_path)`
dir_path == [abs |-> abs_path.abs, segs |-> Parent(abs_path.segs)]
filename == Last(abs_path.segs)

\* send_from_directory(dir_path, filename): safe_join refuses a filename that
\* leaves dir_path, and a path that is no regular file is NotFound
SafeJoinRefuses(name) == name = ".."

download_file_send ==
    /\ pc = "download_send"
    /\ IF SafeJoinRefuses(filename)
          \/ ~OsPathIsfile(fs, OsPathJoin(dir_path, Rel(<<filename>>)))
       THEN pc' = "done" /\ response' = NotFound
       ELSE pc' = "download_open" /\ UNCHANGED response
    /\ UNCHANGED <<globals, main, fs, fsChanges, locals, infoResponse>>

\* send_from_directory goes on to stat and open the file; neither
\* download_file nor send_from_directory catches the OSError of a file that
\* is gone or is a directory by now
download_file_open ==
    /\ pc = "download_open"
    /\ IF OsPathIsfile(fs, OsPathJoin(dir_path, Rel(<<filename>>)))
       THEN /\ response' = [status |-> 200, kind |-> "file",
                            attachment |-> filename,
                            body |-> FileBytes[Resolve(fs, abs_path).node]]
            /\ accessed' = Resolve(fs, abs_path)
       ELSE /\ response' = Uncaught
            /\ UNCHANGED accessed
    /\ pc' = "done"
    /\ UNCHANGED <<globals, main, fs, fsChanges, route, subpath, filepath, listing, idx,
                   is_dir, items, infoResponse, failed, origin>>

\* the response is sent and the request's frame is gone
reply ==
    /\ pc = "done"
    /\ pc' = "idle"
    /\ route' = "none"
    /\ subpath' = <<>>
    /\ filepath' = <<>>
    /\ listing' = <<>>
    /\ idx' = 0
    /\ is_dir' = FALSE
    /\ items' = <<>>
    /\ response' = NoResponse
    /\ accessed' = NoNode
    /\ failed' = {}
    /\ origin' = NoOrigin
    /\ UNCHANGED <<globals, main, fs, fsChanges, infoResponse>>

\* ------------------------------------- other processes on the same host
FsMayChange(n) ==
    /\ main = "serving"
    /\ fsChanges < MaxFsChanges
    /\ n \in Mutable
    /\ fs[n] # "none"
    /\ fsChanges' = fsChanges + 1
    /\ UNCHANGED <<globals, main, pc, locals, response, infoResponse>>

\* rm -r n
FsDelete(n) ==
    /\ FsMayChange(n)
    /\ fs' = [m \in Nodes |-> IF IsPrefix(n, m) THEN "none" ELSE fs[m]]

\* a file is replaced by a directory of the same name
FsReplaceByDirectory(n) ==
    /\ FsMayChange(n)
    /\ fs[n] = "file"
    /\ fs' = [fs EXCEPT ![n] = "dir"]

\* chmod a-r n: the directory can still be searched, not enumerated
FsChmod(n) ==
    /\ FsMayChange(n)
    /\ fs[n] = "dir"
    /\ fs' = [fs EXCEPT ![n] = "locked"]

\* ---------------------------------------------------------------- system
Next ==
    \/ \E selected_path \in {EmptyStr, SharePath} :
           select_folder_and_start_server(selected_path)
    \/ \E d \in {SharePath, MissingPath} : start_server(d)
    \/ get_info
    \/ \E v \in VirtualPaths : list_files_request(v)
    \/ list_files_check
    \/ list_files_listdir
    \/ list_files_isdir
    \/ list_files_stat
    \/ list_files_return
    \/ \E v \in VirtualPaths : download_file_request(v)
    \/ \E i \in 1..Cardinality(Nodes) : download_listed_file(i)
    \/ download_file_check
    \/ download_file_send
    \/ download_file_open
    \/ reply
    \/ \E n \in Mutable : FsDelete(n)
    \/ \E n \in Mutable : FsReplaceByDirectory(n)
    \/ \E n \in Mutable : FsChmod(n)

Spec == Init /\ [][Next]_vars

\* --------------------------------------------------------------- claims
ListingDone == pc = "done" /\ route = "list_files" /\ response.status = 200
DownloadDone == pc = "done" /\ route = "download_file"
WithinSharedRoot(n) == IsPrefix(SHARED_DIRECTORY.segs, n)
EscapesRoot(v) ==
    ~WithinSharedRoot(OsPathAbspath(OsPathJoin(SHARED_DIRECTORY, Rel(v))).segs)
Range(seq) == {seq[k] : k \in 1..Len(seq)}
Position(seq, x) == CHOOSE k \in 1..Len(seq) : seq[k] = x

\* C1: every directory list_files enumerates and every file download_file
\* streams is SHARED_DIRECTORY or lies below it, whatever virtual path the
\* client sent
C1_AccessStaysInSharedRoot == accessed.ok => WithinSharedRoot(accessed.node)

\* C2: a browse request whose virtual path leaves the shared root is
\* answered 403 Forbidden, whether or not the target exists
C2_EscapingBrowseIsForbidden ==
    (pc = "done" /\ route = "list_files" /\ EscapesRoot(subpath))
        => response.status = 403

\* the key of a name under case-insensitive comparison
CaseFoldRank(name) ==
    CASE name = "A" -> 1
      [] name = "a.txt" -> 2
      [] name = "b\\c" -> 3
      [] name = "etc" -> 4
      [] name = "ln" -> 5
      [] OTHER -> 6

DirsFirstThenByName(its) ==
    \A i, j \in 1..Len(its) :
        i < j =>
            /\ its[i].is_dir \/ ~its[j].is_dir
            /\ its[i].is_dir = its[j].is_dir
                   => CaseFoldRank(its[i].name) <= CaseFoldRank(its[j].name)

C4_ListedPathRoundTrip ==
    (DownloadDone /\ origin.ok /\ origin.epoch = fsChanges)
        => /\ response.status = 200
           /\ response.body = FileBytes[origin.node]

\* C5: a browse request on a path that does not exist or that names a
\* regular file is answered 404 NotFound, never with a listing
C5_BrowseOfNoDirectoryIsNotFound ==
    [][(pc = "list_check" /\ pc' # "list_check" /\ ~OsPathIsdir(fs, directory))
           => (pc' = "done" /\ response' = NotFound)]_vars

C5_Witness ==
    /\ pc = "done"
    /\ route = "list_files"
    /\ response = NotFound
    /\ KindAt(fs, directory) = "file"
    /\ fsChanges = 0

\* C6: a download request ends with NotFound or with the stream of a regular
\* file, also when the path is deleted or becomes a directory between
\* download_file's check and the opening of the file: never an uncaught
\* failure
C6_DownloadNeverFailsUncaught ==
    DownloadDone => (response.status = 404 \/ response.status = 200)

\* C7: a directory that cannot be enumerated (permission denied, deleted
\* after the exists/isdir check) gives a 404/403 response, never an uncaught
\* exception
C7_BrowseNeverFailsUncaught ==
    (pc = "done" /\ route = "list_files") => response.status \in {200, 403, 404}

\* C8: once the directory was enumerated the request succeeds, and the
\* listing holds exactly the enumerated children whose stat did not raise,
\* each once, with the metadata stat reported
C8_FailedEntriesAreSkipped ==
    (pc = "done" /\ route = "list_files" /\ accessed.ok) =>
        /\ response.status = 200
        /\ {response.items[k].name : k \in 1..Len(response.items)} = Range(listing) \ failed
        /\ Len(response.items) = Cardinality(Range(listing) \ failed)
        /\ \A k \in 1..Len(response.items) :
               /\ response.items[k].is_dir => response.items[k].size = 0
               /\ response.items[k].last_modified
                      = StMtime(fs, Append(accessed.node, response.items[k].name))

C8_Witness ==
    /\ ListingDone
    /\ failed # {}
    /\ Len(response.items) >= 1

IsParentMarker(e, sub) == e.name = ".." \/ e.path = Parent(sub)

\* C9 as stated: the listing of a non-empty virtual path begins with a
\* parent-entry marker, which comes before all child entries; the listing of
\* the root has none
C9_ParentMarkerFirst ==
    ListingDone =>
        IF subpath # <<>>
        THEN /\ Len(response.items) >= 1
             /\ IsParentMarker(response.items[1], subpath)
        ELSE \A k \in 1..Len(response.items) : ~IsParentMarker(response.items[k], subpath)

\* C9 as amended: no listing holds a parent-entry marker, for the root and
\* for any other virtual path: every entry is an enumerated child
C9_NoParentMarker ==
    ListingDone =>
        \A k \in 1..Len(response.items) :
            /\ ~IsParentMarker(response.items[k], subpath)
            /\ response.items[k].name \in Range(listing)

C9_Witness ==
    /\ ListingDone
    /\ subpath # <<>>
    /\ Len(response.items) >= 1

\* C10: SHARED_DIRECTORY, ROOT_FOLDER_NAME and PORT are assigned by the
\* startup routine alone, before the server accepts requests; the server
\* runs only with a non-empty SHARED_DIRECTORY; no request handler writes
\* them
C10_StartupStateIsFrozen ==
    [][/\ globals' # globals => (main = "start" /\ main' = "serving")
       /\ main' = "serving" => Truthy(SHARED_DIRECTORY')
       /\ main = "serving" => (main' = "serving" /\ globals' = globals)]_vars

C10_Witness ==
    /\ main = "serving"
    /\ SHARED_DIRECTORY = SharePath
    /\ infoResponse.status = 200
    /\ pc = "done"
    /\ fsChanges > 0

====
